---- MODULE Spec2Model ----
(***************************************************************************)
(* Model of the two serverless handlers of nutrients-scan:                 *)
(*   - the food-recognition proxy (one unguarded fetch), and               *)
(*   - the N-Score proxy in its three copies: the copy without retry       *)
(*     (netlify/functions/get-n-score.js) and the two copies that wrap the *)
(*     fetch in fetchWithRetry.                                            *)
(* One behaviour is one invocation.  The upstream service is the           *)
(* environment: every outbound fetch is answered by a response or by a     *)
(* transport failure chosen nondeterministically.                          *)
(*                                                                         *)
(* Optional JS values are modelled as sequences of length at most one:     *)
(* <<>> is "absent/undefined", <<v>> is "present with value v".            *)
(***************************************************************************)
EXTENDS Integers, Sequences, FiniteSets, TLC

VARIABLES pc, event, i, log, outcomes, response

vars == <<pc, event, i, log, outcomes, response>>

None == <<>>
Some(v) == <<v>>

----------------------------------------------------------------------------
(* Program constants *)

\* fetchWithRetry(url, options, retries = 3, delay = 1000)
Retries == 3
Delay == 1000

----------------------------------------------------------------------------
(* Input domains *)

Handlers == {"recognition", "scoreNoRetry", "scoreRetry", "scoreRetryWeight"}

ScoreHandlers == {"scoreNoRetry", "scoreRetry", "scoreRetryWeight"}

Methods == {"GET", "POST"}

AllNumericFields ==
    {"totalWeight", "calories", "protein", "fat", "carbs", "sugar", "fiber", "sodium"}

\* totalNutrition objects: complete, or with exactly one numeric field missing
TotalsValues ==
    {AllNumericFields} \cup {AllNumericFields \ {f} : f \in AllNumericFields}

NameLists == {<<>>, <<"apple", "banana">>}

\* event.body: text that is not JSON, the JSON text "null", or a JSON object
ObjectBodies ==
    [syntax : {"object"},
     totalNutrition : {None} \cup {Some(t) : t \in TotalsValues},
     foodNames : {None} \cup {Some(n) : n \in NameLists},
     base64ImageData : {None, Some("img")},
     supportedFoods : {None, Some(<<"apple", "banana">>)}]

NonObjectBody(s) ==
    [syntax |-> s, totalNutrition |-> None, foodNames |-> None,
     base64ImageData |-> None, supportedFoods |-> None]

EventBodies == ObjectBodies \cup {NonObjectBody("unparseable"), NonObjectBody("null")}

Events == [handler : Handlers, httpMethod : Methods, body : EventBodies]

NoEvent == [handler |-> "none", httpMethod |-> "none", body |-> NonObjectBody("none")]

Texts == {"{\"nScore\":80,\"message\":\"ok\"}", "{\"nScore\":15,\"message\":\"fried\"}"}

\* Upstream envelopes: the path candidates[0].content.parts[0].text, cut at
\* every possible place.
Part(t) == [text |-> t]
Content(p) == [parts |-> p]
Candidate(c) == [content |-> c]
Envelope(c) == [candidates |-> c]

EnvWithText(t) == Envelope(Some(<<Candidate(Some(Content(Some(<<Part(t)>>))))>>))

Envelopes ==
    {EnvWithText(Some(t)) : t \in Texts}
    \cup {EnvWithText(Some("")),
          EnvWithText(None),
          Envelope(Some(<<Candidate(Some(Content(Some(<<>>))))>>)),
          Envelope(Some(<<Candidate(Some(Content(None)))>>)),
          Envelope(Some(<<Candidate(None)>>)),
          Envelope(Some(<<>>)),
          Envelope(None)}

\* Body text of an upstream response
JsonBody(e) == <<"json", e>>
NotJsonBody == <<"text">>
NullBody == <<"json-null">>

ResponseBodies == {JsonBody(e) : e \in Envelopes} \cup {NotJsonBody, NullBody}

SuccessStatuses == {200, 201}
FailureStatuses == {400, 404, 429, 500, 503}
Statuses == SuccessStatuses \cup FailureStatuses

TransportFailure == [kind |-> "throw", status |-> 0, body |-> NotJsonBody]
UpstreamResponse(s, b) == [kind |-> "response", status |-> s, body |-> b]

UpstreamResponses ==
    {UpstreamResponse(s, b) : s \in SuccessStatuses, b \in ResponseBodies}
    \cup {UpstreamResponse(s, NotJsonBody) : s \in FailureStatuses}

----------------------------------------------------------------------------
(* Handler results *)

Result(code, hdr, b) == [statusCode |-> code, headers |-> hdr, body |-> b]

NoResponse == Result(0, "none", <<>>)

RawBody(t) == <<"raw", t>>
ErrorBody(msg) == <<"stringify", "error", msg>>
StringifiedBody(v) == <<"stringify", v>>

MethodNotAllowed == Result(405, "none", RawBody(Some("Method Not Allowed")))
MissingTotals == Result(400, "none", ErrorBody(<<"Missing totalNutrition data.">>))

\* catch (error) { return { statusCode: 500, body: JSON.stringify({ error: error.message }) } }
Caught(msg) == Result(500, "none", ErrorBody(msg))

SyntaxErrorMsg == <<"SyntaxError">>
TypeErrorMsg == <<"TypeError">>
FetchFailedMsg == <<"fetch failed">>
InvalidStructureMsg == <<"Invalid API response structure.">>
ApiErrorMsg(status, text) == <<"API error", status, text>>

----------------------------------------------------------------------------
(* Request gate, body parsing and prompt rendering *)

\* Variant: the gate lets every method through
MethodAllowed_Any(m) == TRUE

\* if (event.httpMethod !== 'POST') return 405
MethodAllowed(m) == m = "POST"

\* Numeric fields each copy of the score prompt formats with toFixed
PromptFields(h) ==
    IF h = "scoreRetryWeight" THEN AllNumericFields
    ELSE AllNumericFields \ {"totalWeight"}

\* Variant: the 400 is returned only when foodNames is missing as well
TotalsMissing_AndNames(b) == b.totalNutrition = None /\ b.foodNames = None

\* if (!totalNutrition) return 400
TotalsMissing(b) == b.totalNutrition = None

\* Rendering the score prompt throws a TypeError when foodNames is undefined
\* (foodNames.join) or a formatted field is undefined (x.toFixed).
ScorePromptThrows(h, b) ==
    \/ b.foodNames = None
    \/ b.totalNutrition = None
    \/ ~(PromptFields(h) \subseteq b.totalNutrition[1])

\* Rendering the recognition prompt throws when supportedFoods is undefined
\* (supportedFoods.join); base64ImageData is only copied into the payload.
RecognitionPromptThrows(b) == b.supportedFoods = None

\* Everything the handler does before its first fetch: either it returns a
\* result, or it issues the first outbound request.
PreFetchResult(ev) ==
    IF ~MethodAllowed(ev.httpMethod) THEN Some(MethodNotAllowed)
    ELSE IF ev.body.syntax = "unparseable" THEN Some(Caught(SyntaxErrorMsg))
    ELSE IF ev.body.syntax = "null" THEN Some(Caught(TypeErrorMsg))
    ELSE IF ev.handler = "recognition"
         THEN IF RecognitionPromptThrows(ev.body) THEN Some(Caught(TypeErrorMsg))
              ELSE None
    ELSE IF TotalsMissing(ev.body) THEN Some(MissingTotals)
    ELSE IF ScorePromptThrows(ev.handler, ev.body) THEN Some(Caught(TypeErrorMsg))
    ELSE None

\* Variant: the recognition handler wraps its fetch in fetchWithRetry too
UsesRetry_Recognition(h) == h # "scoreNoRetry"

\* Which copies call fetchWithRetry instead of fetch
UsesRetry(h) == h \in {"scoreRetry", "scoreRetryWeight"}

----------------------------------------------------------------------------
(* Response translation *)

\* response.ok
ResponseOk(status) == status >= 200 /\ status <= 299

\* Variant: response.status > 400
IsClientError_Exclusive(status) == status > 400 /\ status < 500

\* if (response.status >= 400 && response.status < 500) return response
IsClientError(status) == status >= 400 /\ status < 500

\* Variant: every response is handed back at once
ReturnsFromLoop_Always(status) == TRUE

\* fetchWithRetry hands the response back to the handler without retrying
ReturnsFromLoop(status) == ResponseOk(status) \/ IsClientError(status)

\* The guard before the extraction in the retrying copies:
\*   !result.candidates || !result.candidates[0] || !result.candidates[0].content
\*   || !result.candidates[0].content.parts[0]
\*   || !result.candidates[0].content.parts[0].text
\* evaluated left to right; reading parts[0] of an undefined parts throws.
\* Result: "valid", "invalid" or "typeerror".
StructureCheck(e) ==
    IF e.candidates = None THEN "invalid"
    ELSE IF e.candidates[1] = <<>> THEN "invalid"
    ELSE IF e.candidates[1][1].content = None THEN "invalid"
    ELSE IF e.candidates[1][1].content[1].parts = None THEN "typeerror"
    ELSE IF e.candidates[1][1].content[1].parts[1] = <<>> THEN "invalid"
    ELSE IF e.candidates[1][1].content[1].parts[1][1].text = None THEN "invalid"
    ELSE IF e.candidates[1][1].content[1].parts[1][1].text[1] = "" THEN "invalid"
    ELSE "valid"

\* result.candidates[0].content.parts[0].text without any guard: throws when
\* a step of the path is read off undefined, yields undefined when only the
\* text is absent.
UncheckedText(e) ==
    IF e.candidates = None THEN "typeerror"
    ELSE IF e.candidates[1] = <<>> THEN "typeerror"
    ELSE IF e.candidates[1][1].content = None THEN "typeerror"
    ELSE IF e.candidates[1][1].content[1].parts = None THEN "typeerror"
    ELSE IF e.candidates[1][1].content[1].parts[1] = <<>> THEN "typeerror"
    ELSE "read"

TextOf(e) == e.candidates[1][1].content[1].parts[1][1].text

ScoreSuccess(t) == Result(200, "application/json", RawBody(t))

\* Score copies with the structure guard
ExtractChecked(body) ==
    IF body = NotJsonBody THEN Caught(SyntaxErrorMsg)
    ELSE IF body = NullBody THEN Caught(TypeErrorMsg)
    ELSE CASE StructureCheck(body[2]) = "valid" -> ScoreSuccess(TextOf(body[2]))
           [] StructureCheck(body[2]) = "invalid" -> Caught(InvalidStructureMsg)
           [] OTHER -> Caught(TypeErrorMsg)

\* Score copy without the structure guard
ExtractUnchecked(body) ==
    IF body = NotJsonBody THEN Caught(SyntaxErrorMsg)
    ELSE IF body = NullBody THEN Caught(TypeErrorMsg)
    ELSE IF UncheckedText(body[2]) = "typeerror" THEN Caught(TypeErrorMsg)
    ELSE ScoreSuccess(TextOf(body[2]))

\* Recognition: JSON.stringify(await response.json())
RelayEnvelope(body) ==
    IF body = NotJsonBody THEN Caught(SyntaxErrorMsg)
    ELSE Result(200, "none", StringifiedBody(body))

\* What the handler returns once it holds a response r
Translate(h, r) ==
    IF ~ResponseOk(r.status) THEN Caught(ApiErrorMsg(r.status, r.body))
    ELSE IF h = "recognition" THEN RelayEnvelope(r.body)
    ELSE IF UsesRetry(h) THEN ExtractChecked(r.body)
    ELSE ExtractUnchecked(r.body)

----------------------------------------------------------------------------
(* Retry policy *)

RECURSIVE Pow2(_)
Pow2(n) == IF n = 0 THEN 1 ELSE 2 * Pow2(n - 1)

\* delay * Math.pow(2, i)
BackoffDelay(k) == Delay * Pow2(k)

\* Variant: i < retries
AttemptsRemain_OffByOne(k) == k < Retries

\* Variant: i <= retries - 1
AttemptsRemain_Inclusive(k) == k <= Retries - 1

\* if (i < retries - 1)
AttemptsRemain(k) == k < Retries - 1

FetchEntry == <<"fetch", 0>>
WaitEntry(ms) == <<"wait", ms>>

----------------------------------------------------------------------------
(* State machine *)

TypeOK ==
    /\ pc \in {"idle", "fetchInLoop", "backoff", "fetchPlain", "done"}
    /\ event \in Events \cup {NoEvent}
    /\ i \in 0..Retries
    /\ log \in Seq({FetchEntry} \cup {WaitEntry(BackoffDelay(k)) : k \in 0..Retries})
    /\ outcomes \in Seq(UpstreamResponses \cup {TransportFailure})
    /\ response.statusCode \in {0, 200, 400, 405, 500}

Init ==
    /\ pc = "idle"
    /\ event = NoEvent
    /\ i = 0
    /\ log = <<>>
    /\ outcomes = <<>>
    /\ response = NoResponse

\* The platform calls exports.handler(event); the handler runs up to its
\* first await: it returns, or it issues the first outbound request.
Invoke(ev) ==
    /\ pc = "idle"
    /\ event' = ev
    /\ i' = 0
    /\ outcomes' = <<>>
    /\ IF PreFetchResult(ev) # None
       THEN /\ response' = PreFetchResult(ev)[1]
            /\ pc' = "done"
            /\ log' = <<>>
       ELSE /\ response' = NoResponse
            /\ pc' = IF UsesRetry(ev.handler) THEN "fetchInLoop" ELSE "fetchPlain"
            /\ log' = <<FetchEntry>>

\* await fetch(url, options) inside the for loop resolves with response r
LoopFetchResponds(r) ==
    /\ pc = "fetchInLoop"
    /\ outcomes' = Append(outcomes, r)
    /\ IF ReturnsFromLoop(r.status)
       THEN /\ response' = Translate(event.handler, r)
            /\ pc' = "done"
            /\ UNCHANGED <<i, log>>
       ELSE IF AttemptsRemain(i)
       THEN /\ pc' = "backoff"
            /\ log' = Append(log, WaitEntry(BackoffDelay(i)))
            /\ UNCHANGED <<i, response>>
       ELSE \* the loop ends; return await fetch(url, options)
            /\ pc' = "fetchPlain"
            /\ i' = i + 1
            /\ log' = Append(log, FetchEntry)
            /\ UNCHANGED response
    /\ UNCHANGED event

\* await fetch(url, options) inside the for loop rejects
LoopFetchThrows ==
    /\ pc = "fetchInLoop"
    /\ outcomes' = Append(outcomes, TransportFailure)
    /\ IF AttemptsRemain(i)
       THEN /\ pc' = "backoff"
            /\ log' = Append(log, WaitEntry(BackoffDelay(i)))
            /\ UNCHANGED <<i, response>>
       ELSE /\ response' = Caught(FetchFailedMsg)
            /\ pc' = "done"
            /\ UNCHANGED <<i, log>>
    /\ UNCHANGED event

\* The setTimeout of the backoff fires; the loop increments i and fetches again
BackoffElapses ==
    /\ pc = "backoff"
    /\ i' = i + 1
    /\ pc' = "fetchInLoop"
    /\ log' = Append(log, FetchEntry)
    /\ UNCHANGED <<event, outcomes, response>>

\* A fetch outside any loop (the only fetch of the recognition handler and of
\* the score copy without retry; the fetch after the loop of fetchWithRetry)
\* resolves with response r
PlainFetchResponds(r) ==
    /\ pc = "fetchPlain"
    /\ outcomes' = Append(outcomes, r)
    /\ response' = Translate(event.handler, r)
    /\ pc' = "done"
    /\ UNCHANGED <<event, i, log>>

\* A fetch outside any loop rejects
PlainFetchThrows ==
    /\ pc = "fetchPlain"
    /\ outcomes' = Append(outcomes, TransportFailure)
    /\ response' = Caught(FetchFailedMsg)
    /\ pc' = "done"
    /\ UNCHANGED <<event, i, log>>

Next ==
    \/ \E ev \in Events : Invoke(ev)
    \/ \E r \in UpstreamResponses : LoopFetchResponds(r)
    \/ LoopFetchThrows
    \/ BackoffElapses
    \/ \E r \in UpstreamResponses : PlainFetchResponds(r)
    \/ PlainFetchThrows

Spec == Init /\ [][Next]_vars

----------------------------------------------------------------------------
(* Derived quantities *)

\* Number of outbound requests issued so far
RECURSIVE CountFetches(_)
CountFetches(l) ==
    IF l = <<>> THEN 0
    ELSE (IF Head(l) = FetchEntry THEN 1 ELSE 0) + CountFetches(Tail(l))

Requests == CountFetches(log)

Done == pc = "done"

----------------------------------------------------------------------------
(* Vocabulary of the properties *)

Last(s) == s[Len(s)]

IsResponse(o) == o.kind = "response"
IsTransportFailure(o) == o.kind = "throw"

Is2xx(o) == IsResponse(o) /\ o.status \in 200..299
Is4xx(o) == IsResponse(o) /\ o.status \in 400..499
Is5xx(o) == IsResponse(o) /\ o.status >= 500
Is429(o) == IsResponse(o) /\ o.status = 429

\* a status >= 500, or a transport failure
RetryableFailure(o) == Is5xx(o) \/ IsTransportFailure(o)

HasGeneratedText(o) == \E t \in Texts : o.body = JsonBody(EnvWithText(Some(t)))
GeneratedText(o) == CHOOSE t \in Texts : o.body = JsonBody(EnvWithText(Some(t)))

IsScoreCall == event.handler \in ScoreHandlers
IsRetryingScoreCall == event.handler \in {"scoreRetry", "scoreRetryWeight"}
IsRecognitionCall == event.handler = "recognition"

\* Attempts a copy of the handler may make inside its budget
AttemptBudget == IF IsRetryingScoreCall THEN 3 ELSE 1

----------------------------------------------------------------------------
(* C1 *)

----------------------------------------------------------------------------
(* C2 *)

----------------------------------------------------------------------------
(* C3 *)

\* C3: in both handlers, a request whose method is not POST gets the 405
\* 'Method Not Allowed' response, whatever its body, and the invocation
\* makes no outbound request and no backoff wait.
C3_MethodGate ==
    (event # NoEvent /\ event.httpMethod # "POST") =>
      /\ Done
      /\ response.statusCode = 405
      /\ response.body = RawBody(Some("Method Not Allowed"))
      /\ log = <<>>
      /\ outcomes = <<>>

\* A GET whose body would not even parse, in each kind of handler
C3_Witness ==
    /\ event.handler \in Handlers
    /\ event.httpMethod = "GET"
    /\ event.body.syntax = "unparseable"
    /\ Done
    /\ response.statusCode = 405

----------------------------------------------------------------------------
(* C4 *)

\* C4: a POST to the score handler whose body parses to an object without a
\* totalNutrition field gets status 400, and no outbound request is made,
\* whatever the other fields of the body are.
C4_MissingTotals ==
    ( /\ IsScoreCall
      /\ event.httpMethod = "POST"
      /\ event.body.syntax = "object"
      /\ event.body.totalNutrition = None )
    => /\ Done
       /\ response.statusCode = 400
       /\ response.body = ErrorBody(<<"Missing totalNutrition data.">>)
       /\ log = <<>>

\* totalNutrition absent while foodNames and the other fields are present
C4_Witness ==
    /\ IsScoreCall
    /\ event.httpMethod = "POST"
    /\ event.body.syntax = "object"
    /\ event.body.totalNutrition = None
    /\ event.body.foodNames # None
    /\ event.body.base64ImageData # None
    /\ Done
    /\ response.statusCode = 400

----------------------------------------------------------------------------
(* C5 *)

\* Bodies C5 calls malformed or incomplete
MalformedOrIncomplete ==
    \/ event.body.syntax = "unparseable"
    \/ /\ event.body.syntax = "object"
       /\ IsScoreCall
       /\ \/ event.body.foodNames = None
          \/ event.body.totalNutrition = None
          \/ /\ event.body.totalNutrition # None
             /\ event.body.totalNutrition[1] # AllNumericFields
    \/ /\ event.body.syntax = "object"
       /\ IsRecognitionCall
       /\ \/ event.body.base64ImageData = None
          \/ event.body.supportedFoods = None

\* C5: in both handlers, a POST whose body is malformed or incomplete is
\* rejected with status 400 and without any outbound request.
C5_BadBodyRejected ==
    (event # NoEvent /\ event.httpMethod = "POST" /\ MalformedOrIncomplete) =>
      /\ log = <<>>
      /\ Done
      /\ response.statusCode = 400

----------------------------------------------------------------------------
(* C6 *)

\* 2xx envelopes in which a field of candidates[0].content.parts[0].text
\* is absent
PathCutEnvelopes ==
    {EnvWithText(None),
     Envelope(Some(<<Candidate(Some(Content(Some(<<>>))))>>)),
     Envelope(Some(<<Candidate(Some(Content(None)))>>)),
     Envelope(Some(<<Candidate(None)>>)),
     Envelope(Some(<<>>)),
     Envelope(None)}

\* C6: in the score handler (the copies with the structure guard), after a
\* 2xx response: with the text present the result is status 200, tagged
\* application/json, with exactly that text as body; with any field of the
\* path absent the result is a 500 carrying 'Invalid API response
\* structure.'; in both cases that response was the last outbound request.
C6_EnvelopeExtraction ==
    (IsRetryingScoreCall /\ outcomes # <<>> /\ Is2xx(Last(outcomes))) =>
      /\ HasGeneratedText(Last(outcomes)) =>
           /\ Done
           /\ response = Result(200, "application/json",
                                RawBody(Some(GeneratedText(Last(outcomes)))))
           /\ Requests = Len(outcomes)
      /\ (\E e \in PathCutEnvelopes : Last(outcomes).body = JsonBody(e)) =>
           /\ Done
           /\ response.statusCode = 500
           /\ response.body = ErrorBody(<<"Invalid API response structure.">>)
           /\ Requests = Len(outcomes)

----------------------------------------------------------------------------
(* C7 *)

RecognitionReachedUpstream == IsRecognitionCall /\ log # <<>>

\* C7 as stated: the recognition handler makes exactly one outbound request;
\* on every 2xx response it returns status 200 with the stringified
\* envelope, on any other outcome a 500 with {error: message}.
C7_Original ==
    (RecognitionReachedUpstream /\ Done) =>
      /\ Requests = 1
      /\ Len(outcomes) = 1
      /\ Is2xx(outcomes[1]) =>
           /\ response.statusCode = 200
           /\ response.body = StringifiedBody(outcomes[1].body)
      /\ ~Is2xx(outcomes[1]) =>
           /\ response.statusCode = 500
           /\ response.body[2] = "error"

\* C7 (amended): the recognition handler makes exactly one outbound request
\* per invocation that reaches the upstream step and never waits or retries;
\* on a 2xx response whose body parses as JSON it returns status 200 with
\* the stringified parsed envelope as body; on any other outcome (4xx, 429,
\* 5xx, transport failure, or a 2xx whose body is not JSON) it returns a 500
\* with an {error: message} body.
C7_SingleAttemptRelay ==
    RecognitionReachedUpstream =>
      /\ log = <<FetchEntry>>
      /\ Len(outcomes) <= 1
      /\ (outcomes # <<>>) => Done
      /\ Done =>
           /\ Len(outcomes) = 1
           /\ IF Is2xx(outcomes[1]) /\ outcomes[1].body # NotJsonBody
              THEN /\ response.statusCode = 200
                   /\ response.body = StringifiedBody(outcomes[1].body)
              ELSE /\ response.statusCode = 500
                   /\ response.body[2] = "error"
                   /\ Is4xx(outcomes[1]) \/ Is5xx(outcomes[1]) =>
                        response.body[3] =
                          ApiErrorMsg(outcomes[1].status, outcomes[1].body)

\* A 503 answered to the recognition handler: one request, a 500, no retry
C7_Witness ==
    /\ RecognitionReachedUpstream
    /\ Done
    /\ Requests = 1
    /\ outcomes[1].status = 503
    /\ response.statusCode = 500

----------------------------------------------------------------------------
(* C8 *)

\* C8: in the retry loop, when an attempt that is not the last of the budget
\* is answered with status 429, the handler does not return to the caller:
\* it waits the backoff delay and then issues another request.
C8_RateLimitRetried ==
    ( /\ IsRetryingScoreCall
      /\ outcomes # <<>>
      /\ Len(outcomes) < 3
      /\ Len(outcomes) = Requests
      /\ Is429(Last(outcomes)) )
    => /\ pc = "backoff"
       /\ log[Len(log)][1] = "wait"

----------------------------------------------------------------------------
(* C9 *)

----------------------------------------------------------------------------
(* C10 *)

\* Index of the attempt made by the fetch at position k of the log
AttemptIndexAt(k) == CountFetches(SubSeq(log, 1, k)) - 1

\* C10: within one score-handler invocation, every outbound request after
\* the first directly follows a backoff wait of 1000 * 2^a ms, a being the
\* index of the failed attempt before it, so the waits between consecutive
\* requests never decrease.
C10_BackoffBeforeEveryRetry ==
    IsRetryingScoreCall =>
      \A k \in 2..Len(log) :
         log[k] = FetchEntry =>
            /\ log[k - 1][1] = "wait"
            /\ log[k - 1][2] = 1000 * Pow2(AttemptIndexAt(k) - 1)

----------------------------------------------------------------------------
(* C11 *)

\* An outbound request in flight completes, with a response or with a
\* transport failure
FetchCompletes ==
    \/ \E r \in UpstreamResponses : LoopFetchResponds(r)
    \/ LoopFetchThrows
    \/ \E r \in UpstreamResponses : PlainFetchResponds(r)
    \/ PlainFetchThrows

\* Every outbound request completes and every backoff timer fires
FairSpec == Spec /\ WF_vars(FetchCompletes) /\ WF_vars(BackoffElapses)

Waits == Len(log) - Requests

\* C11: provided every outbound request completes and every backoff wait
\* elapses, every score-handler invocation eventually returns a response
\* with status 200, 400, 405 or 500; at every moment it has issued at most
\* 4 outbound requests and made at most 2 backoff waits; and it returns 200
\* only if its last outbound request was answered with a 2xx response.
C11_ReturnsBounded ==
    /\ [](IsScoreCall =>
            /\ Requests <= 4
            /\ Waits <= 2
            /\ Done => response.statusCode \in {200, 400, 405, 500}
            /\ (Done /\ response.statusCode = 200) =>
                 /\ outcomes # <<>>
                 /\ Len(outcomes) = Requests
                 /\ Is2xx(Last(outcomes)))
    /\ (IsScoreCall ~> (Done /\ response.statusCode \in {200, 400, 405, 500}))

\* The longest run: three failed attempts, two waits, a fourth request
\* answered with a 2xx, result 200
C11_Witness ==
    /\ IsScoreCall
    /\ Done
    /\ Requests = 4
    /\ Waits = 2
    /\ Is2xx(Last(outcomes))
    /\ response.statusCode = 200

====
